---- MODULE Spec2Model ----
(***************************************************************************)
(* Model of fuzzel/wallpaper-picker.py: runs of main() (resolve the        *)
(* wallpaper directories, scan them, build the fuzzel menu with cached     *)
(* thumbnails, run the picker, set the wallpaper with swww) over a file    *)
(* system whose thumbnail cache is shared by the runs.                     *)
(*                                                                         *)
(* Strings are sequences of character codes (97 = "a", 65 = "A",           *)
(* 46 = ".", 32 = " ", 255 = a byte that is not valid UTF-8), so that      *)
(* lower(), suffix, lstrip(), strip(), decode() and the comparison of      *)
(* sort keys are computed, not assumed.                                    *)
(***************************************************************************)
EXTENDS Integers, Sequences, FiniteSets, TLC

\* ------------------------------------------------------------------ bounds
\* number of entries of WALLPAPER_DIRS that are modelled (the script lists 5)
NumDirs == 2
\* longest directory listing drawn for the scanner
MaxEntries == 2
\* longest byte string the picker writes to its stdout
MaxOut == 2
\* number of runs of the program that share the thumbnail cache
NumProcs == 2

\* ------------------------------------------------------- character strings
a_jpg == <<97, 46, 106, 112, 103>>
A_JPG == <<65, 46, 74, 80, 71>>
b_png == <<98, 46, 112, 110, 103>>
c_txt == <<99, 46, 116, 120, 116>>
\* ".png": a hidden file without a suffix
dot_png == <<46, 112, 110, 103>>
\* "x.webp": the target of a symbolic link
x_webp == <<120, 46, 119, 101, 98, 112>>
png_suffix == <<46, 112, 110, 103>>

DEFAULT_EXTS ==
    { <<106, 112, 103>>, <<106, 112, 101, 103>>, <<112, 110, 103>> }

\* str.lower() on the ASCII range
Lower(s) == [k \in DOMAIN s |-> IF s[k] \in 65..90 THEN s[k] + 32 ELSE s[k]]

\* str.rfind("."), 1-based; 0 when there is no dot
RFindDot(s) ==
    IF \E k \in DOMAIN s : s[k] = 46
    THEN CHOOSE k \in DOMAIN s :
            s[k] = 46 /\ \A m \in DOMAIN s : s[m] = 46 => m <= k
    ELSE 0

\* PurePath.suffix: the part from the last dot on, unless that dot is the
\* first or the last character of the name
Suffix(name) ==
    LET i == RFindDot(name)
    IN  IF 1 < i /\ i < Len(name) THEN SubSeq(name, i, Len(name)) ELSE <<>>

RECURSIVE LStripDot(_)
LStripDot(s) ==
    IF s # <<>> /\ s[1] = 46 THEN LStripDot(Tail(s)) ELSE s

\* ext = p.suffix.lower().lstrip(".")
ExtOf(name) == LStripDot(Lower(Suffix(name)))

\* Python's str "<": code points, left to right; a proper prefix is smaller
RECURSIVE LexLess(_, _)
LexLess(a, b) ==
    IF b = <<>> THEN FALSE
    ELSE IF a = <<>> THEN TRUE
    ELSE IF a[1] # b[1] THEN a[1] < b[1]
    ELSE LexLess(Tail(a), Tail(b))

\* ------------------------------------------------------------- file system
Procs == 1..NumProcs
DirIds == 1..NumDirs

\* a resolved path: directory (0 = a directory outside WALLPAPER_DIRS) + name
NoPath == [dir |-> 0, name |-> <<>>]
MkPath(d, n) == [dir |-> d, name |-> n]

File(n) == [name |-> n, kind |-> "file", target |-> NoPath, resolves |-> TRUE]
SubDir(n) == [name |-> n, kind |-> "subdir", target |-> NoPath, resolves |-> TRUE]
\* a symbolic link to a regular file; resolves = FALSE: Path.resolve() raises
Link(n, t, r) == [name |-> n, kind |-> "link", target |-> t, resolves |-> r]

Missing == [kind |-> "missing", list |-> <<>>]
Unreadable == [kind |-> "unreadable", list |-> <<>>]
Dir(l) == [kind |-> "dir", list |-> l]

VARIABLES
    fs,        \* fs.link[i]: the directory WALLPAPER_DIRS[i] resolves to;
               \* fs.dir[d]: kind and os.listdir order of directory d
    cacheDir,  \* THUMB_CACHE_DIR: "ok", "uncreatable" or "unsearchable"
    cache,     \* cache[t]: the file THUMB_CACHE_DIR/t
    pc,        \* where each run of main() is
    dirs,      \* main: dirs
    images,    \* main: images (path, plus the entry and directory it is from)
    idx,       \* build_fuzzel_input: position of img in files
    payload,   \* build_fuzzel_input: out_chunks
    selected,  \* main: selected
    swww,      \* the swww invocations of the run, in order
    thumbs,    \* the completed make_thumb calls of the run, in order
    err,       \* what the run wrote to stderr, in order
    exitCode,  \* the exit status of the run, -1 while it runs
    steps,     \* the stages of main the run has entered
    call,      \* make_thumb: what the call in progress has done so far
    picker     \* the exit status and stdout of the run's fuzzel process

vars == <<fs, cacheDir, cache, pc, dirs, images, idx, payload, selected,
          swww, thumbs, err, exitCode, steps, call, picker>>

\* ---------------------------------------------------------------- resolver
\* Path(os.path.expanduser(p)).resolve() for the i-th configured directory
ResolveDir(i) == fs.link[i]

\* existing_dirs without the is_dir test
existing_dirs_unfiltered(paths) == paths

RECURSIVE existing_dirs(_)
existing_dirs(paths) ==
    IF paths = <<>> THEN <<>>
    ELSE LET rest == existing_dirs(SubSeq(paths, 1, Len(paths) - 1))
             p == paths[Len(paths)]
         IN  IF fs.dir[p].kind # "missing" THEN Append(rest, p) ELSE rest

resolve_dirs == existing_dirs([i \in DirIds |-> ResolveDir(i)])

\* ----------------------------------------------------------------- scanner
\* p.resolve() of an entry e of directory base; falls back to p
ResolveEntry(base, e) ==
    IF e.kind = "link" /\ e.resolves THEN e.target ELSE MkPath(base, e.name)

\* the inner loop of scan_images over os.listdir(base)
RECURSIVE ScanDir(_, _, _)
ScanDir(base, from, list) ==
    IF list = <<>> THEN <<>>
    ELSE LET rest == ScanDir(base, from, SubSeq(list, 1, Len(list) - 1))
             e == list[Len(list)]
         IN  IF e.kind \in {"file", "link"}
                /\ ExtOf(e.name) \in {Lower(x) : x \in DEFAULT_EXTS}
             THEN Append(rest, [path |-> ResolveEntry(base, e),
                                from |-> from, entry |-> e.name])
             ELSE rest

\* the outer loop of scan_images; a directory whose listing fails is skipped
RECURSIVE ScanAll(_, _)
ScanAll(ds, n) ==
    IF n = 0 THEN <<>>
    ELSE ScanAll(ds, n - 1) \o
         (IF fs.dir[ds[n]].kind = "dir"
          THEN ScanDir(ds[n], n, fs.dir[ds[n]].list) ELSE <<>>)

SortKey(img) == Lower(img.path.name)

\* a sort that puts an element before the elements with an equal key
InsertUnstable(sorted, x) ==
    LET n == Cardinality({k \in DOMAIN sorted :
                            LexLess(SortKey(sorted[k]), SortKey(x))})
    IN  SubSeq(sorted, 1, n) \o <<x>> \o SubSeq(sorted, n + 1, Len(sorted))

\* list.sort(key=...): stable, ascending
InsertStable(sorted, x) ==
    LET n == Cardinality({k \in DOMAIN sorted :
                            ~LexLess(SortKey(x), SortKey(sorted[k]))})
    IN  SubSeq(sorted, 1, n) \o <<x>> \o SubSeq(sorted, n + 1, Len(sorted))

RECURSIVE SortByName(_)
SortByName(s) ==
    IF s = <<>> THEN <<>>
    ELSE InsertStable(SortByName(SubSeq(s, 1, Len(s) - 1)), s[Len(s)])

scan_images(ds) == SortByName(ScanAll(ds, Len(ds)))

\* the directories of ds whose listing raised
ScanWarnings(ds) ==
    LET Bad(k) == fs.dir[ds[k]].kind = "unreadable"
        F[k \in 0..Len(ds)] ==
            IF k = 0 THEN <<>>
            ELSE IF Bad(k) THEN Append(F[k - 1], <<"Warning: failed to scan", <<ds[k]>> >>)
            ELSE F[k - 1]
    IN  F[Len(ds)]

\* --------------------------------------------------------- picker's output
OutBytes == {32, 120, 255}
PickerCodes == {0, 1, 2}
SwwwCodes == {0, 1}

RECURSIVE SeqsUpTo(_, _)
SeqsUpTo(S, n) ==
    IF n = 0 THEN {<<>>}
    ELSE LET shorter == SeqsUpTo(S, n - 1)
         IN  shorter \cup {Append(s, x) : s \in shorter, x \in S}

PickerOutputs == SeqsUpTo(OutBytes, MaxOut)

\* bytes.decode("utf-8", errors="ignore"): bytes that do not decode are dropped
RECURSIVE Decode(_)
Decode(b) ==
    IF b = <<>> THEN <<>>
    ELSE IF b[1] >= 128 THEN Decode(Tail(b))
    ELSE <<b[1]>> \o Decode(Tail(b))

IsSpace(c) == c = 32 \/ c \in 9..13

RECURSIVE LStrip(_)
LStrip(s) == IF s # <<>> /\ IsSpace(s[1]) THEN LStrip(Tail(s)) ELSE s

RECURSIVE RStrip(_)
RStrip(s) ==
    IF s # <<>> /\ IsSpace(s[Len(s)])
    THEN RStrip(SubSeq(s, 1, Len(s) - 1)) ELSE s

\* str.strip()
Strip(s) == RStrip(LStrip(s))

\* the selection without the strip()
SelectionUntrimmed(out) == Decode(out)

\* sel = stdout_data.decode("utf-8", errors="ignore").strip()
Selection(out) == Strip(Decode(out))

\* ---------------------------------------------------------- thumbnail cache
\* out = THUMB_CACHE_DIR / f"{src.name}.png"
ThumbName(src) == src.name \o png_suffix

NoThumb == <<>>
\* seen: the look-up of line 64 found the file; invoked: vipsthumbnail ran;
\* overwrote: it wrote its output over a file that was already there
NoCall == [invoked |-> 0, overwrote |-> FALSE, seen |-> FALSE]
Absent == [exists |-> FALSE, from |-> NoPath]
\* a thumbnail left by a run that ended before the modelled ones started
Old == [exists |-> TRUE, from |-> NoPath]

ImageNames == {a_jpg, A_JPG, b_png, x_webp}
ThumbNames == {n \o png_suffix : n \in ImageNames}

\* ------------------------------------------------------------------- steps
Set(f, p, v) == [f EXCEPT ![p] = v]

\* sys.exit(main()) with the value main returned
Exit(p, code, msgs) ==
    /\ pc' = Set(pc, p, "done")
    /\ exitCode' = Set(exitCode, p, code)
    /\ err' = Set(err, p, err[p] \o msgs)

\* an exception nobody catches: the interpreter prints the traceback and
\* exits with status 1
Crash(p) == Exit(p, 1, << <<"Traceback", <<>> >> >>)

\* main, lines 212-216
ResolveDirs(p) ==
    /\ pc[p] = "start"
    /\ steps' = Set(steps, p, steps[p] \cup {"resolve"})
    /\ LET d == resolve_dirs
       IN  IF d = <<>>
           THEN /\ Exit(p, 1,
                        << <<"No valid wallpaper directories found.", <<>> >>,
                           <<"Edit WALLPAPER_DIRS at the top of the script.",
                             <<>> >> >>)
                /\ UNCHANGED dirs
           ELSE /\ dirs' = Set(dirs, p, d)
                /\ pc' = Set(pc, p, "scan")
                /\ UNCHANGED <<exitCode, err>>
    /\ UNCHANGED <<fs, cacheDir, cache, images, idx, payload, selected, swww,
                   thumbs, call, picker>>

\* main, lines 220-223
ScanImages(p) ==
    /\ pc[p] = "scan"
    /\ steps' = Set(steps, p, steps[p] \cup {"scan"})
    /\ LET imgs == scan_images(dirs[p])
           warn == ScanWarnings(dirs[p])
       IN  /\ images' = Set(images, p, imgs)
           /\ IF imgs = <<>>
              THEN Exit(p, 0, warn \o
                     << <<"No images found in the provided directories.",
                          <<>> >> >>)
              ELSE /\ pc' = Set(pc, p, "thumb_check")
                   /\ err' = Set(err, p, err[p] \o warn)
                   /\ UNCHANGED exitCode
    /\ UNCHANGED <<fs, cacheDir, cache, dirs, idx, payload, selected, swww,
                   thumbs, call, picker>>

\* build_fuzzel_input that never writes the icon directive
EmitWithoutIcon(p, res) ==
    LET img == images[p][idx[p]].path
    IN  /\ payload' = Set(payload, p,
                Append(payload[p],
                       [label |-> img.name, value |-> img, icon |-> NoThumb]))
        /\ thumbs' = Set(thumbs, p,
                Append(thumbs[p],
                       [src |-> img, res |-> res,
                        invoked |-> call'[p].invoked,
                        overwrote |-> call'[p].overwrote,
                        seen |-> call'[p].seen]))
        /\ idx' = Set(idx, p, idx[p] + 1)
        /\ pc' = Set(pc, p, IF idx[p] = Len(images[p])
                             THEN "picker" ELSE "thumb_check")

\* build_fuzzel_input, lines 112-119: the line of the current image, with
\* the icon directive when make_thumb returned a path; then the next image,
\* or the picker after the last one
Emit(p, res) ==
    LET img == images[p][idx[p]].path
    IN  /\ payload' = Set(payload, p,
                Append(payload[p],
                       [label |-> img.name, value |-> img, icon |-> res]))
        /\ thumbs' = Set(thumbs, p,
                Append(thumbs[p],
                       [src |-> img, res |-> res,
                        invoked |-> call'[p].invoked,
                        overwrote |-> call'[p].overwrote,
                        seen |-> call'[p].seen]))
        /\ idx' = Set(idx, p, idx[p] + 1)
        /\ pc' = Set(pc, p, IF idx[p] = Len(images[p])
                             THEN "picker" ELSE "thumb_check")

\* make_thumb without the early return of lines 64-65
ThumbCheckNoReuse(p) ==
    /\ pc[p] = "thumb_check"
    /\ steps' = Set(steps, p, steps[p] \cup {"build"})
    /\ LET t == ThumbName(images[p][idx[p]].path)
       IN  \/ /\ cacheDir = "uncreatable"
              /\ Crash(p)
              /\ UNCHANGED <<payload, thumbs, idx, call>>
           \/ /\ cacheDir = "unsearchable"
              /\ \/ /\ Crash(p)
                    /\ UNCHANGED <<payload, thumbs, idx, call>>
                 \/ /\ pc' = Set(pc, p, "thumb_run")
                    /\ call' = Set(call, p, NoCall)
                    /\ UNCHANGED <<payload, thumbs, idx, err, exitCode>>
           \/ /\ cacheDir = "ok"
              /\ pc' = Set(pc, p, "thumb_run")
              /\ call' = Set(call, p, [NoCall EXCEPT !.seen = cache[t].exists])
              /\ UNCHANGED <<payload, thumbs, idx, err, exitCode>>
    /\ UNCHANGED <<fs, cacheDir, cache, dirs, images, selected, swww, picker>>

\* make_thumb, lines 61-65: ensure_dir, then the look-up of the cache file
ThumbCheck(p) ==
    /\ pc[p] = "thumb_check"
    /\ steps' = Set(steps, p, steps[p] \cup {"build"})
    /\ LET t == ThumbName(images[p][idx[p]].path)
       IN  \/ /\ cacheDir = "uncreatable"
              /\ Crash(p)
              /\ UNCHANGED <<payload, thumbs, idx, call>>
           \/ /\ cacheDir = "unsearchable"
              /\ \/ /\ Crash(p)
                    /\ UNCHANGED <<payload, thumbs, idx, call>>
                 \/ /\ pc' = Set(pc, p, "thumb_run")
                    /\ call' = Set(call, p, NoCall)
                    /\ UNCHANGED <<payload, thumbs, idx, err, exitCode>>
           \/ /\ cacheDir = "ok"
              /\ IF cache[t].exists
                 THEN /\ call' = Set(call, p, [NoCall EXCEPT !.seen = TRUE])
                      /\ Emit(p, t)
                      /\ UNCHANGED <<err, exitCode>>
                 ELSE /\ pc' = Set(pc, p, "thumb_run")
                      /\ call' = Set(call, p, NoCall)
                      /\ UNCHANGED <<payload, thumbs, idx, err, exitCode>>
    /\ UNCHANGED <<fs, cacheDir, cache, dirs, images, selected, swww, picker>>

\* make_thumb, line 79 (and 81-82): the vipsthumbnail process
ThumbRun(p) ==
    /\ pc[p] = "thumb_run"
    /\ LET src == images[p][idx[p]].path
           t == ThumbName(src)
           started == [call[p] EXCEPT !.invoked = 1]
       IN  \/ \* the process cannot be started: except Exception -> None
              /\ call' = call
              /\ Emit(p, NoThumb)
              /\ UNCHANGED cache
           \/ \* it runs and writes the output file
              /\ cacheDir = "ok"
              /\ cache' = [cache EXCEPT ![t] = [exists |-> TRUE, from |-> src]]
              /\ call' = Set(call, p, [started EXCEPT
                                          !.overwrote = cache[t].exists])
              /\ pc' = Set(pc, p, "thumb_recheck")
              /\ UNCHANGED <<payload, thumbs, idx>>
           \/ \* it runs and writes nothing
              /\ call' = Set(call, p, started)
              /\ pc' = Set(pc, p, "thumb_recheck")
              /\ UNCHANGED <<cache, payload, thumbs, idx>>
    /\ UNCHANGED <<fs, cacheDir, dirs, images, selected, swww, err, exitCode,
                   steps, picker>>

\* make_thumb, lines 80-82: return out if out.exists() else None
ThumbRecheck(p) ==
    /\ pc[p] = "thumb_recheck"
    /\ LET t == ThumbName(images[p][idx[p]].path)
       IN  /\ call' = call
           /\ Emit(p, IF cacheDir = "ok" /\ cache[t].exists
                      THEN t ELSE NoThumb)
    /\ UNCHANGED <<fs, cacheDir, cache, dirs, images, selected, swww, err,
                   exitCode, steps, picker>>

\* run_fuzzel (lines 139-159) and main, lines 227-235
RunFuzzel(p) ==
    /\ pc[p] = "picker"
    /\ steps' = Set(steps, p, steps[p] \cup {"picker"})
    /\ \/ \* Popen or communicate raises: main reports it and returns 1
          /\ Exit(p, 1, << <<"Failed to run fuzzel", <<>> >> >>)
          /\ picker' = Set(picker, p, [ran |-> FALSE, raised |-> TRUE,
                                       rc |-> 0, out |-> <<>>])
          /\ UNCHANGED selected
       \/ \E rc \in PickerCodes, out \in PickerOutputs :
            LET sel == Selection(out)
            IN  /\ picker' = Set(picker, p, [ran |-> TRUE, raised |-> FALSE,
                                             rc |-> rc, out |-> out])
                /\ selected' = Set(selected, p, sel)
                /\ IF sel = <<>>
                   THEN Exit(p, 0, <<>>)
                   ELSE /\ pc' = Set(pc, p, "swww_init")
                        /\ UNCHANGED <<err, exitCode>>
    /\ UNCHANGED <<fs, cacheDir, cache, dirs, images, idx, payload, swww,
                   thumbs, call>>

Invocation(cmd, raised, rc) == [cmd |-> cmd, raised |-> raised, rc |-> rc]

\* set_with_swww, lines 176-179: swww init, whose outcome is ignored
SwwwInit(p) ==
    /\ pc[p] = "swww_init"
    /\ steps' = Set(steps, p, steps[p] \cup {"setter"})
    /\ \/ swww' = Set(swww, p, Append(swww[p], Invocation("init", TRUE, 0)))
       \/ \E rc \in SwwwCodes :
            swww' = Set(swww, p, Append(swww[p], Invocation("init", FALSE, rc)))
    /\ pc' = Set(pc, p, "swww_img")
    /\ UNCHANGED <<fs, cacheDir, cache, dirs, images, idx, payload, selected,
                   thumbs, err, exitCode, call, picker>>

\* set_with_swww that goes on to the bare invocation whatever rc is
SwwwImgAlwaysFallsBack(p) ==
    /\ pc[p] = "swww_img"
    /\ \/ /\ swww' = Set(swww, p,
                   Append(swww[p], Invocation("img transition", TRUE, 0)))
          /\ Crash(p)
       \/ \E rc \in SwwwCodes :
            /\ swww' = Set(swww, p,
                   Append(swww[p], Invocation("img transition", FALSE, rc)))
            /\ pc' = Set(pc, p, "swww_fallback")
            /\ UNCHANGED <<err, exitCode>>
    /\ UNCHANGED <<fs, cacheDir, cache, dirs, images, idx, payload, selected,
                   thumbs, steps, call, picker>>

\* set_with_swww, lines 182-194: swww img with the transition parameters
SwwwImg(p) ==
    /\ pc[p] = "swww_img"
    /\ \/ /\ swww' = Set(swww, p,
                   Append(swww[p], Invocation("img transition", TRUE, 0)))
          /\ Crash(p)
       \/ \E rc \in SwwwCodes :
            /\ swww' = Set(swww, p,
                   Append(swww[p], Invocation("img transition", FALSE, rc)))
            /\ IF rc = 0
               THEN Exit(p, 0, <<>>)
               ELSE /\ pc' = Set(pc, p, "swww_fallback")
                    /\ UNCHANGED <<err, exitCode>>
    /\ UNCHANGED <<fs, cacheDir, cache, dirs, images, idx, payload, selected,
                   thumbs, steps, call, picker>>

\* set_with_swww, lines 197-198, and main, lines 240-244
SwwwFallback(p) ==
    /\ pc[p] = "swww_fallback"
    /\ \/ /\ swww' = Set(swww, p, Append(swww[p], Invocation("img", TRUE, 0)))
          /\ Crash(p)
       \/ \E rc \in SwwwCodes :
            /\ swww' = Set(swww, p,
                   Append(swww[p], Invocation("img", FALSE, rc)))
            /\ IF rc = 0
               THEN Exit(p, 0, <<>>)
               ELSE Exit(p, 1, << <<"Failed to set wallpaper via swww. Selected",
                                   selected[p]>> >>)
    /\ UNCHANGED <<fs, cacheDir, cache, dirs, images, idx, payload, selected,
                   thumbs, steps, call, picker>>

\* ------------------------------------------------------------ initial states
\* the runs in Started are at the top of main, the others never start
RunsInit(Started) ==
    /\ pc = [p \in Procs |-> IF p \in Started THEN "start" ELSE "off"]
    /\ dirs = [p \in Procs |-> <<>>]
    /\ images = [p \in Procs |-> <<>>]
    /\ idx = [p \in Procs |-> 1]
    /\ payload = [p \in Procs |-> <<>>]
    /\ selected = [p \in Procs |-> <<>>]
    /\ swww = [p \in Procs |-> <<>>]
    /\ thumbs = [p \in Procs |-> <<>>]
    /\ err = [p \in Procs |-> <<>>]
    /\ exitCode = [p \in Procs |-> -1]
    /\ steps = [p \in Procs |-> {}]
    /\ call = [p \in Procs |-> NoCall]
    /\ picker = [p \in Procs |-> [ran |-> FALSE, raised |-> FALSE,
                                  rc |-> 0, out |-> <<>>]]

\* the links between the configured directories: none, or all to the first
DirLinks == {[i \in DirIds |-> i], [i \in DirIds |-> 1]}

\* the cache directory and the thumbnails older runs left in it
CacheInit(Olds) ==
    /\ cacheDir \in {"ok", "uncreatable", "unsearchable"}
    /\ \E old \in SUBSET Olds :
         /\ cacheDir = "uncreatable" => old = {}
         /\ cache = [t \in ThumbNames |-> IF t \in old THEN Old ELSE Absent]

\* one whole run of main
MainDirs == {Missing, Unreadable, Dir(<<>>), Dir(<<File(c_txt), File(a_jpg)>>)}

Init ==
    /\ fs \in [link : {[i \in DirIds |-> i]}, dir : [DirIds -> MainDirs]]
    /\ CacheInit({a_jpg \o png_suffix})
    /\ RunsInit({1})

Next ==
    \E p \in Procs :
        \/ ResolveDirs(p)
        \/ ScanImages(p)
        \/ ThumbCheck(p)
        \/ ThumbRun(p)
        \/ ThumbRecheck(p)
        \/ RunFuzzel(p)
        \/ SwwwInit(p)
        \/ SwwwImg(p)
        \/ SwwwFallback(p)

Spec == Init /\ [][Next]_vars

\* a run from its start to the end of build_fuzzel_input
NextBuild ==
    \E p \in Procs :
        \/ ResolveDirs(p)
        \/ ScanImages(p)
        \/ ThumbCheck(p)
        \/ ThumbRun(p)
        \/ ThumbRecheck(p)

\* one run building its menu over directories that share file names
BuildListings ==
    { <<>>, <<File(a_jpg)>>, <<File(c_txt), File(a_jpg)>>, <<File(b_png)>> }

BuildDirs == {Missing, Unreadable} \cup {Dir(l) : l \in BuildListings}

InitBuild ==
    /\ fs \in [link : DirLinks, dir : [DirIds -> BuildDirs]]
    /\ CacheInit({a_jpg \o png_suffix, b_png \o png_suffix})
    /\ RunsInit({1})

SpecBuild == InitBuild /\ [][NextBuild]_vars

\* several runs at once, each building its menu
RaceDirs == {Missing, Dir(<<File(a_jpg)>>)}

InitRace ==
    /\ fs \in [link : {[i \in DirIds |-> i]}, dir : [DirIds -> RaceDirs]]
    /\ CacheInit({a_jpg \o png_suffix})
    /\ RunsInit(Procs)

SpecRace == InitRace /\ [][NextBuild]_vars

\* the scanner alone: every listing of up to MaxEntries of the first four
\* entries, and two listings with the entries scan_images passes over
ScanEntries ==
    { File(a_jpg), File(A_JPG), File(c_txt),
      Link(b_png, MkPath(0, x_webp), TRUE) }

\* os.listdir: no two entries of a directory have the same name
ScanListings ==
    {l \in SeqsUpTo(ScanEntries, MaxEntries) :
        \A j, k \in DOMAIN l : j # k => l[j].name # l[k].name}
    \cup { <<SubDir(b_png), File(dot_png)>>,
           <<Link(A_JPG, MkPath(0, x_webp), FALSE), File(b_png)>> }

ScanDirs == {Missing, Unreadable} \cup {Dir(l) : l \in ScanListings}

InitScan ==
    /\ fs \in [link : DirLinks, dir : [DirIds -> ScanDirs]]
    /\ cacheDir = "ok"
    /\ cache = [t \in ThumbNames |-> Absent]
    /\ RunsInit({1})

NextScan == \E p \in Procs : ResolveDirs(p) \/ ScanImages(p)

SpecScan == InitScan /\ [][NextScan]_vars

\* ------------------------------------------------------------------ claims
Range(s) == {s[k] : k \in DOMAIN s}

Transitions(p) == {k \in DOMAIN swww[p] : swww[p][k].cmd = "img transition"}
Fallbacks(p) == {k \in DOMAIN swww[p] : swww[p][k].cmd = "img"}
ExitedZero(log, K) == \E k \in K : ~log[k].raised /\ log[k].rc = 0
ExitedNonZero(log, K) == \E k \in K : ~log[k].raised /\ log[k].rc # 0

\* C1: swww init is the first invocation and the only init; when the
\* transition invocation exits 0 there is no fallback invocation, exactly one
\* img invocation, and the run succeeds; when it exits non-zero, a finished
\* run has made exactly one fallback invocation and succeeded iff that one
\* exited 0, whatever init did.
C1_TransitionThenFallback ==
    \A p \in Procs :
        LET log == swww[p]
        IN  /\ log # <<>> =>
                /\ log[1].cmd = "init"
                /\ \A k \in DOMAIN log : k > 1 => log[k].cmd # "init"
            /\ Cardinality(Transitions(p)) <= 1
            /\ Cardinality(Fallbacks(p)) <= 1
            /\ Fallbacks(p) # {} => ExitedNonZero(log, Transitions(p))
            /\ ExitedZero(log, Transitions(p)) =>
                /\ Fallbacks(p) = {}
                /\ Len(log) = 2
                /\ pc[p] = "done" /\ exitCode[p] = 0
            /\ ExitedNonZero(log, Transitions(p)) /\ pc[p] = "done" =>
                /\ Cardinality(Fallbacks(p)) = 1
                /\ exitCode[p] = 0 <=> ExitedZero(log, Fallbacks(p))

C1_Witness ==
    \E p \in Procs :
        /\ pc[p] = "done" /\ exitCode[p] = 0
        /\ Len(swww[p]) = 3
        /\ swww[p][1].raised
        /\ ~swww[p][2].raised /\ swww[p][2].rc = 1
        /\ ~swww[p][3].raised /\ swww[p][3].rc = 0

\* C2: a picker that exits with a non-zero status ends the run with exit
\* status 0 and without any swww invocation, whatever it wrote to stdout.
C2_NonZeroPickerIsCancel ==
    \A p \in Procs :
        picker[p].ran /\ picker[p].rc # 0 =>
            /\ pc[p] = "done" /\ exitCode[p] = 0
            /\ swww[p] = <<>> /\ "setter" \notin steps[p]

\* C3 (as claimed): two make_thumb calls in a row on the same source path
\* return the same result and run the thumbnailer at most once between them.
C3_TwoCallsOneRun ==
    \A p \in Procs : \A k \in DOMAIN thumbs[p] :
        k + 1 \in DOMAIN thumbs[p] /\ thumbs[p][k].src = thumbs[p][k + 1].src =>
            /\ thumbs[p][k].res = thumbs[p][k + 1].res
            /\ thumbs[p][k].invoked + thumbs[p][k + 1].invoked <= 1

\* C3 (amended): when the first of two make_thumb calls in a row on the same
\* source path returns a thumbnail path, the second returns the same path and
\* the thumbnailer runs at most once between them.
C3_TwoCallsOnceCached ==
    \A p \in Procs : \A k \in DOMAIN thumbs[p] :
        /\ k + 1 \in DOMAIN thumbs[p]
        /\ thumbs[p][k].src = thumbs[p][k + 1].src
        /\ thumbs[p][k].res # NoThumb
        =>  /\ thumbs[p][k].res = thumbs[p][k + 1].res
            /\ thumbs[p][k].invoked + thumbs[p][k + 1].invoked <= 1

C3_Witness ==
    \E p \in Procs :
        /\ Len(thumbs[p]) >= 2
        /\ thumbs[p][1].src = thumbs[p][2].src
        /\ thumbs[p][1].invoked = 1 /\ thumbs[p][1].res # NoThumb
        /\ thumbs[p][2].invoked = 0 /\ thumbs[p][2].res = thumbs[p][1].res

\* C4: a run that found images reaches the picker with one menu line per
\* image, whatever went wrong in the thumbnail step; it does not end before.
C4_ThumbFailureNeverFatal ==
    \A p \in Procs :
        pc[p] = "done" /\ images[p] # <<>> =>
            /\ "picker" \in steps[p]
            /\ Len(payload[p]) = Len(images[p])
            /\ \A k \in DOMAIN payload[p] :
                  thumbs[p][k].res = NoThumb => payload[p][k].icon = NoThumb

SetterFailed(p) ==
    \E k \in Fallbacks(p) : swww[p][k].raised \/ swww[p][k].rc # 0

\* C5: a finished run has exit status 0 or 1, and 1 exactly when no
\* configured directory exists, the picker could not be run, or the fallback
\* swww invocation failed, the last with a diagnostic naming the selection.
C5_ExitCodes ==
    \A p \in Procs :
        pc[p] = "done" =>
            /\ exitCode[p] \in {0, 1}
            /\ exitCode[p] = 1 <=>
                  \/ \A i \in DirIds : fs.dir[fs.link[i]].kind = "missing"
                  \/ picker[p].raised
                  \/ SetterFailed(p)
            /\ SetterFailed(p) =>
                  <<"Failed to set wallpaper via swww. Selected", selected[p]>>
                      \in Range(err[p])

\* every byte of s is white space or does not decode
Blank(s) == \A k \in DOMAIN s : s[k] >= 128 \/ s[k] = 32 \/ s[k] \in 9..13

\* C6: when the picker's output is empty once decoded and trimmed, the run
\* is over with exit status 0 and has made no swww invocation.
C6_EmptySelectionExitsZero ==
    \A p \in Procs :
        picker[p].ran /\ Blank(picker[p].out) =>
            /\ pc[p] = "done" /\ exitCode[p] = 0
            /\ swww[p] = <<>> /\ "setter" \notin steps[p]

C6_Witness ==
    \E p \in Procs :
        /\ picker[p].ran /\ picker[p].rc = 1 /\ picker[p].out = <<>>
        /\ pc[p] = "done" /\ exitCode[p] = 0 /\ swww[p] = <<>>

NoDirExists == \A i \in DirIds : fs.dir[fs.link[i]].kind = "missing"

\* C7: when no configured directory exists, a run that has resolved them is
\* over with exit status 1 and the two diagnostics about WALLPAPER_DIRS, and
\* has scanned nothing, built no menu, and run neither picker nor swww.
C7_NoDirsStopsRun ==
    \A p \in Procs :
        NoDirExists /\ "resolve" \in steps[p] =>
            /\ pc[p] = "done" /\ exitCode[p] = 1
            /\ err[p] = << <<"No valid wallpaper directories found.", <<>> >>,
                           <<"Edit WALLPAPER_DIRS at the top of the script.",
                             <<>> >> >>
            /\ steps[p] = {"resolve"}
            /\ images[p] = <<>> /\ payload[p] = <<>> /\ thumbs[p] = <<>>
            /\ ~picker[p].ran /\ ~picker[p].raised /\ swww[p] = <<>>

C7_Witness ==
    \E p \in Procs : NoDirExists /\ pc[p] = "done" /\ exitCode[p] = 1

\* the lower-cased name ends in a dot and an allowed extension, and has
\* something before that dot
HasAllowedExt(name) ==
    \E e \in {<<106, 112, 103>>, <<106, 112, 101, 103>>, <<112, 110, 103>>} :
        /\ Len(name) > Len(e) + 1
        /\ SubSeq(Lower(name), Len(name) - Len(e), Len(name)) = <<46>> \o e

SortedByName(imgs) ==
    \A k, l \in DOMAIN imgs :
        k < l => ~LexLess(Lower(imgs[l].path.name), Lower(imgs[k].path.name))

\* position of the entry called n in the listing of directory d
PosIn(d, n) ==
    CHOOSE k \in DOMAIN fs.dir[d].list : fs.dir[d].list[k].name = n

\* the entries of the n-th scanned directory that are files with an allowed
\* extension
Qualifying(ds, n) ==
    IF fs.dir[ds[n]].kind # "dir" THEN {}
    ELSE {e \in Range(fs.dir[ds[n]].list) :
            e.kind \in {"file", "link"} /\ HasAllowedExt(e.name)}

\* every qualifying entry of every scanned directory is in imgs once, and
\* images with equal keys are in the order in which they were found
KeptInScanOrder(ds, imgs) ==
    /\ \A k \in DOMAIN imgs : imgs[k].from \in DOMAIN ds
    /\ \A n \in DOMAIN ds :
          {imgs[k].entry : k \in {j \in DOMAIN imgs : imgs[j].from = n}}
              = {e.name : e \in Qualifying(ds, n)}
    /\ \A k, l \in DOMAIN imgs :
          k # l => <<imgs[k].from, imgs[k].entry>> # <<imgs[l].from, imgs[l].entry>>
    /\ \A k, l \in DOMAIN imgs :
          k < l /\ Lower(imgs[k].path.name) = Lower(imgs[l].path.name) =>
              \/ imgs[k].from < imgs[l].from
              \/ /\ imgs[k].from = imgs[l].from
                 /\ PosIn(ds[imgs[k].from], imgs[k].entry)
                        < PosIn(ds[imgs[l].from], imgs[l].entry)

\* C8 (as claimed): every path scan_images returns has an allowed extension,
\* the list is sorted by lower-cased filename, and equal filenames are all
\* kept in the order the directories were scanned.
C8_ScanResult ==
    \A p \in Procs :
        "scan" \in steps[p] =>
            /\ \A k \in DOMAIN images[p] : HasAllowedExt(images[p][k].path.name)
            /\ SortedByName(images[p])
            /\ KeptInScanOrder(dirs[p], images[p])

\* what the directory entry called n of directory d resolves to
ResolvedPath(d, n) ==
    LET e == fs.dir[d].list[PosIn(d, n)]
    IN  IF e.kind = "link" /\ e.resolves THEN e.target ELSE MkPath(d, n)

\* C8 (amended): every path scan_images returns is the resolved path of a
\* directory entry whose own name has an allowed extension (the target of a
\* symbolic link may have any name); the list is sorted by the lower-cased
\* filename of the returned paths, and equal filenames are all kept in the
\* order the directories were scanned.
C8_ScanResultOfEntries ==
    \A p \in Procs :
        "scan" \in steps[p] =>
            /\ \A k \in DOMAIN images[p] :
                  /\ HasAllowedExt(images[p][k].entry)
                  /\ images[p][k].path =
                        ResolvedPath(dirs[p][images[p][k].from],
                                     images[p][k].entry)
            /\ SortedByName(images[p])
            /\ KeptInScanOrder(dirs[p], images[p])

C8_Witness ==
    \E p \in Procs :
        /\ "scan" \in steps[p]
        /\ \E k \in DOMAIN images[p] : ~HasAllowedExt(images[p][k].path.name)
        /\ \E k, l \in DOMAIN images[p] :
              /\ k < l
              /\ images[p][k].from < images[p][l].from
              /\ images[p][k].path.name # images[p][l].path.name
              /\ Lower(images[p][k].path.name) = Lower(images[p][l].path.name)
        /\ \E k, l \in DOMAIN images[p] :
              /\ k < l
              /\ images[p][k].from > images[p][l].from
              /\ LexLess(Lower(images[p][k].path.name),
                         Lower(images[p][l].path.name))

\* the thumbnails whose file run p's thumbnailer has written over
Overwritten(p) ==
    {ThumbName(thumbs[p][k].src) :
        k \in {j \in DOMAIN thumbs[p] : thumbs[p][j].overwrote}}
    \cup (IF pc[p] = "thumb_recheck" /\ call[p].overwrote
          THEN {ThumbName(images[p][idx[p]].path)} ELSE {})

\* the thumbnails run p has run the thumbnailer for
Generated(p) ==
    {ThumbName(thumbs[p][k].src) :
        k \in {j \in DOMAIN thumbs[p] : thumbs[p][j].invoked = 1}}
    \cup (IF pc[p] = "thumb_recheck" /\ call[p].invoked = 1
          THEN {ThumbName(images[p][idx[p]].path)} ELSE {})

\* C9 (as claimed): no run's thumbnailer writes over a cache file that was
\* already there.
C9_NeverOverwritten == \A p \in Procs : Overwritten(p) = {}

NoDelete == \A t \in ThumbNames : cache[t].exists => cache'[t].exists

OverwriteOnlyInRace ==
    \A p \in Procs : \A t \in Overwritten(p) :
        \E q \in Procs \ {p} : t \in Generated(q)

\* C9 (amended): no run deletes a cache file, and a run's thumbnailer writes
\* over an existing cache file only when another run has generated that
\* file too, that is after this run looked for it and before its own
\* thumbnailer wrote.
C9_NoDeleteOverwriteOnlyInRace == [][NoDelete]_vars /\ []OverwriteOnlyInRace

C9_Witness ==
    \E p \in Procs :
        /\ pc[p] = "picker"
        /\ \E k \in DOMAIN thumbs[p] :
              thumbs[p][k].overwrote /\ thumbs[p][k].res # NoThumb

\* C10: two images of a run with the same filename in different directories
\* get the same thumbnail path; when the first gets a thumbnail, the file is
\* there when the second is looked up; and when it is there, the thumbnailer
\* is not run for the second image, whose menu line carries that thumbnail,
\* generated from an earlier image of that name or left by an earlier run.
C10_SameNameSharesThumb ==
    \A p \in Procs : \A i, j \in DOMAIN thumbs[p] :
        LET a == thumbs[p][i]
            b == thumbs[p][j]
        IN  i < j /\ a.src.name = b.src.name /\ a.src.dir # b.src.dir =>
              /\ a.res # NoThumb /\ b.res # NoThumb => a.res = b.res
              /\ a.res # NoThumb => b.seen
              /\ b.seen =>
                    /\ b.invoked = 0
                    /\ b.res # NoThumb
                    /\ payload[p][j] = [label |-> b.src.name, value |-> b.src,
                                        icon |-> b.res]
                    /\ cache[b.res].exists
                    /\ cache[b.res].from # b.src
                    /\ \/ cache[b.res] = Old
                       \/ \E k \in 1..(j - 1) :
                            /\ thumbs[p][k].src = cache[b.res].from
                            /\ thumbs[p][k].src.name = b.src.name

C10_Witness ==
    \E p \in Procs :
        /\ Len(thumbs[p]) >= 2
        /\ thumbs[p][1].src.name = thumbs[p][2].src.name
        /\ thumbs[p][1].src.dir # thumbs[p][2].src.dir
        /\ thumbs[p][1].invoked = 1
        /\ thumbs[p][2].seen
        /\ payload[p][2].icon = thumbs[p][1].res
        /\ cache[payload[p][2].icon].from = thumbs[p][1].src

====
